---- MODULE Spec2Model ----
(***************************************************************************)
(* A model of jarvis (src/jarvis/jarvis.py, src/jarvis/utils.py): the      *)
(* fuzzy name resolver (autocomplete / autocorrect, max_substring, and the *)
(* difflib.get_close_matches call they rest on), the edit subcommand that  *)
(* rewrites the JSON database, by one process or by two on the same file,  *)
(* and the list subcommand's category listings.                            *)
(*                                                                         *)
(* A string is a sequence of character codes (65 is "A", 97 is "a"), so    *)
(* that lower-casing, indexing, prefixes and string order are computed     *)
(* rather than assumed.                                                    *)
(***************************************************************************)
EXTENDS Integers, Sequences, FiniteSets, TLC

----------------------------------------------------------------------------
(* Bounds of the model *)

\* longest entry name or query, in characters
MaxLen == 2

\* most candidates handed to one resolver or max_substring call
MaxCands == 2

\* the characters strings are built from: "A", "a", "b"
Alphabet == {65, 97, 98}

\* the entry names a database is keyed with:
\* "", "a", "A", "ab", "Ab", "ba", "aab", "aba", "abb", "bab"
Names ==
    { <<>>, <<97>>, <<65>>, <<97, 98>>, <<65, 98>>, <<98, 97>>,
      <<97, 97, 98>>, <<97, 98, 97>>, <<97, 98, 98>>, <<98, 97, 98>> }

\* the queries a user types: "", "a", "A", "b", "ab", "Ab", "aba", "abb"
Queries ==
    { <<>>, <<97>>, <<65>>, <<98>>, <<97, 98>>, <<65, 98>>,
      <<97, 98, 97>>, <<97, 98, 98>> }

\* the names given on the command line of an invocation: "a", "ab", "Ab", "b"
SoftwareArgs == {<<97>>, <<97, 98>>, <<65, 98>>, <<98>>}

\* invocations of the edit subcommand started in one run of the model
MaxInvocations == 2

\* the processes that may run the program at the same time
Procs == {1, 2}

\* the cutoffs a resolver call is tried with, as <<numerator, denominator>>:
\* 0.5 and the default 0.75
Deltas == {<<1, 2>>, <<3, 4>>}

----------------------------------------------------------------------------
(* Strings *)

Min(x, y) == IF x <= y THEN x ELSE y

RECURSIVE SeqsUpTo(_, _)
SeqsUpTo(S, n) ==
    IF n = 0 THEN {<<>>}
    ELSE LET shorter == SeqsUpTo(S, n - 1)
         IN  shorter \cup {Append(s, x) : s \in shorter, x \in S}

Strings == SeqsUpTo(Alphabet, MaxLen)

\* unicode.lower() on one character: "A".."Z" map to "a".."z"
LowerChar(c) == IF c >= 65 /\ c <= 90 THEN c + 32 ELSE c

\* unicode.lower()
Lower(s) == [i \in 1..Len(s) |-> LowerChar(s[i])]

\* unicode.startswith(prefix)
StartsWith(word, prefix) ==
    /\ Len(prefix) <= Len(word)
    /\ \A i \in 1..Len(prefix) : word[i] = prefix[i]

\* s < t in Python's string order: by character code, a proper prefix first
RECURSIVE StrLess(_, _)
StrLess(s, t) ==
    IF t = <<>> THEN FALSE
    ELSE IF s = <<>> THEN TRUE
    ELSE IF s[1] # t[1] THEN s[1] < t[1]
    ELSE StrLess(Tail(s), Tail(t))

\* x in list
InList(x, list) == \E i \in 1..Len(list) : list[i] = x

----------------------------------------------------------------------------
(* The outcome of a call: a returned value or a raised exception *)

Idle == [kind |-> "idle", value |-> <<>>, exc |-> ""]
Return(v) == [kind |-> "return", value |-> v, exc |-> ""]
Raise(e) == [kind |-> "raise", value |-> <<>>, exc |-> e]

----------------------------------------------------------------------------
(* max_substring *)

\* Letters with a word that has run out skipped instead of ending the
\* comparison
LettersSkipShort(wordlist, position) ==
    LET long == SelectSeq(wordlist, LAMBDA w : position + 1 <= Len(w))
    IN  IF long = <<>> /\ wordlist # <<>> THEN Raise("IndexError")
        ELSE Return([i \in 1..Len(long) |-> long[i][position + 1]])

\* letter = [word[position] for word in words], IndexError when a word is
\* shorter than position + 1
Letters(wordlist, position) ==
    IF \E i \in 1..Len(wordlist) : position + 1 > Len(wordlist[i])
    THEN Raise("IndexError")
    ELSE Return([i \in 1..Len(wordlist) |-> wordlist[i][position + 1]])

RECURSIVE max_substring(_, _, _)
max_substring(wordlist, last_letter, position) ==
    LET got == Letters(wordlist, position)
        letter == got.value
    IN  IF got.kind = "raise" THEN Return(last_letter)
        ELSE IF \A i \in 1..Len(letter) : letter[i] = letter[1]
        THEN IF letter = <<>> THEN Raise("IndexError")
             ELSE LET rest == max_substring(wordlist, <<letter[1]>>, position + 1)
                  IN  IF rest.kind = "raise" THEN rest
                      ELSE Return(last_letter \o rest.value)
        ELSE Return(last_letter)

----------------------------------------------------------------------------
(* difflib.SequenceMatcher and get_close_matches, as autocomplete uses them *)

\* the length of the common run of a from index i and b from index j
\* (0-based, ends exclusive)
RECURSIVE RunLen(_, _, _, _, _, _)
RunLen(a, b, i, j, ahi, bhi) ==
    IF i < ahi /\ j < bhi /\ a[i + 1] = b[j + 1]
    THEN 1 + RunLen(a, b, i + 1, j + 1, ahi, bhi)
    ELSE 0

\* SequenceMatcher.find_longest_match without junk: the longest block, the
\* one earliest in a, then earliest in b; <<alo, blo, 0>> when none
find_longest_match(a, b, alo, ahi, blo, bhi) ==
    LET blocks == {<<i, j, RunLen(a, b, i, j, ahi, bhi)>> :
                      i \in alo..(ahi - 1), j \in blo..(bhi - 1)}
        better(p, q) == \/ p[3] > q[3]
                        \/ p[3] = q[3] /\ p[1] < q[1]
                        \/ p[3] = q[3] /\ p[1] = q[1] /\ p[2] <= q[2]
    IN  IF \A p \in blocks : p[3] = 0 THEN <<alo, blo, 0>>
        ELSE CHOOSE p \in blocks : \A q \in blocks : better(p, q)

\* the sum of the sizes of get_matching_blocks(): the longest block, then
\* the pieces to its left and to its right
RECURSIVE MatchingSize(_, _, _, _, _, _)
MatchingSize(a, b, alo, ahi, blo, bhi) ==
    LET m == find_longest_match(a, b, alo, ahi, blo, bhi)
        i == m[1]
        j == m[2]
        k == m[3]
    IN  IF k = 0 THEN 0
        ELSE k
             + (IF alo < i /\ blo < j
                THEN MatchingSize(a, b, alo, i, blo, j) ELSE 0)
             + (IF i + k < ahi /\ j + k < bhi
                THEN MatchingSize(a, b, i + k, ahi, j + k, bhi) ELSE 0)

\* _calculate_ratio: 2.0 * matches / length, 1.0 when length is 0; kept as
\* the fraction <<numerator, denominator>>
calculate_ratio(matches, length) ==
    IF length # 0 THEN <<2 * matches, length>> ELSE <<1, 1>>

\* fractions compared by cross-multiplication (denominators are positive)
FracGeq(r, s) == r[1] * s[2] >= s[1] * r[2]
FracEq(r, s) == r[1] * s[2] = s[1] * r[2]

\* SequenceMatcher(a, b).ratio()
ratio(a, b) ==
    calculate_ratio(MatchingSize(a, b, 0, Len(a), 0, Len(b)), Len(a) + Len(b))

Count(s, c) == Cardinality({i \in 1..Len(s) : s[i] = c})

\* SequenceMatcher(a, b).quick_ratio(): characters in common as multisets
quick_ratio(a, b) ==
    LET chars == {a[i] : i \in 1..Len(a)}
        Sum[S \in SUBSET chars] ==
            IF S = {} THEN 0
            ELSE LET c == CHOOSE x \in S : TRUE
                 IN  Min(Count(a, c), Count(b, c)) + Sum[S \ {c}]
    IN  calculate_ratio(Sum[chars], Len(a) + Len(b))

\* SequenceMatcher(a, b).real_quick_ratio()
real_quick_ratio(a, b) ==
    calculate_ratio(Min(Len(a), Len(b)), Len(a) + Len(b))

\* PairGreater with the pairs ordered by score alone, so that equal scores
\* keep the order of the candidates
PairGreaterScoreOnly(p, q) == p[1][1] * q[1][2] > q[1][1] * p[1][2]

\* (score, x) > (score', x') as Python compares the tuples
PairGreater(p, q) ==
    \/ p[1][1] * q[1][2] > q[1][1] * p[1][2]
    \/ FracEq(p[1], q[1]) /\ StrLess(q[2], p[2])


\* sorted(result, reverse=True): the greatest first, equal pairs in their
\* given order
RECURSIVE SortedDesc(_)
SortedDesc(result) ==
    IF result = <<>> THEN <<>>
    ELSE LET top == CHOOSE i \in 1..Len(result) :
                      /\ \A j \in 1..Len(result) : ~PairGreater(result[j], result[i])
                      /\ \A j \in 1..(i - 1) : PairGreater(result[i], result[j])
             rest == [j \in 1..(Len(result) - 1) |->
                        IF j < top THEN result[j] ELSE result[j + 1]]
         IN  <<result[top]>> \o SortedDesc(rest)

\* heapq.nlargest(n, result)
nlargest(n, result) == SubSeq(SortedDesc(result), 1, Min(n, Len(result)))

\* difflib.get_close_matches(word, possibilities, n=3, cutoff)
get_close_matches(word, poss, cutoff) ==
    LET scored == [i \in 1..Len(poss) |-> <<ratio(poss[i], word), poss[i]>>]
        close(p) == /\ FracGeq(real_quick_ratio(p[2], word), cutoff)
                    /\ FracGeq(quick_ratio(p[2], word), cutoff)
                    /\ FracGeq(p[1], cutoff)
        best == nlargest(3, SelectSeq(scored, close))
    IN  [i \in 1..Len(best) |-> best[i][2]]

----------------------------------------------------------------------------
(* autocomplete (jarvis.py) and autocorrect (utils.py) *)

\* possibilities = [possibility.lower() for possibility in possibilities]
Lowered(poss) == [i \in 1..Len(poss) |-> Lower(poss[i])]

\* options = [word for word in possibilities if word.startswith(query)]
Options(q, poss) == SelectSeq(Lowered(poss), LAMBDA w : StartsWith(w, q))

\* the possibilities get_close_matches is called with
Narrowed(q, poss) ==
    LET options == Options(q, poss)
    IN  IF Len(options) > 0 THEN options ELSE Lowered(poss)

\* the query get_close_matches is called with
Completed(q, poss) ==
    LET options == Options(q, poss)
    IN  IF Len(options) > 0 THEN max_substring(options, <<>>, 0).value ELSE q

\* matches = get_close_matches(query, possibilities, cutoff=delta)
Matches(q, poss, cutoff) ==
    get_close_matches(Completed(q, poss), Narrowed(q, poss), cutoff)

\* jarvis.py: return matches[0], an IndexError when matches is empty
autocomplete(q, poss, cutoff) ==
    IF InList(q, Lowered(poss)) THEN Return(q)
    ELSE LET matches == Matches(q, poss, cutoff)
         IN  IF matches = <<>> THEN Raise("IndexError") ELSE Return(matches[1])

\* utils.py: assert len(matches) > 0, re-raised as AssertionError
autocorrect(q, poss, cutoff) ==
    IF InList(q, Lowered(poss)) THEN Return(q)
    ELSE LET matches == Matches(q, poss, cutoff)
         IN  IF matches = <<>> THEN Raise("AssertionError") ELSE Return(matches[1])

----------------------------------------------------------------------------
(* State *)

VARIABLES
    query,          \* the query of a resolver call made on its own
    possibilities,  \* its candidates, in the order they are passed
    delta,          \* its cutoff
    resolved,       \* what the resolver call came to
    words,          \* the argument of a max_substring call made on its own
    substring,      \* what the max_substring call came to
    listArgs,       \* the command line of a list invocation
    listed,         \* what the list invocation printed, or how it failed
    file,           \* the database file: the dict its JSON document holds
    length,         \* the length of the file in bytes
    pc,             \* where each process is in an edit invocation
    args,           \* its parsed command line
    data,           \* its copy of the database, as loaded and then changed
    match,          \* the entry name its query resolved to
    answer,         \* its user's last answer to the prompt of --remove
    status,         \* how its invocation ended
    started         \* the invocations started so far

callVars ==
    <<query, possibilities, delta, resolved, words, substring, listArgs, listed>>

editVars == <<file, length, pc, args, data, match, answer, status, started>>

vars == <<query, possibilities, delta, resolved, words, substring,
          listArgs, listed, file, length, pc, args, data, match, answer,
          status, started>>

\* lists of at most n distinct elements of S, in every order
DistinctLists(S, n) ==
    {l \in SeqsUpTo(S, n) : \A i, j \in 1..Len(l) : i # j => l[i] # l[j]}

----------------------------------------------------------------------------
(* The database: a dict from entry name to a dict of seven fields.  A      *)
(* value is a string, a list of strings or None; the strings of the fields *)
(* are kept whole ("x", "1"), only entry names are spelled out.            *)

Fields ==
    {"description", "version", "previous versions", "commands",
     "installation method", "dependencies", "categories"}

ScalarFields == {"description", "version", "installation method"}

ListFields == Fields \ ScalarFields

None == [t |-> "none", s |-> "", l |-> <<>>]
Str(x) == [t |-> "str", s |-> x, l |-> <<>>]
List(x) == [t |-> "list", s |-> "", l |-> x]

\* the record sub_edit creates for a new entry
NewEntry == [f \in Fields |-> IF f \in ScalarFields THEN Str("") ELSE List(<<>>)]

\* the database the model starts from: "ab", with every field well formed
FirstEntry ==
    [f \in Fields |->
        CASE f = "description" -> Str("d")
          [] f = "version" -> Str("1")
          [] f = "commands" -> List(<<"x">>)
          [] f = "categories" -> List(<<"y">>)
          [] f = "installation method" -> Str("")
          [] OTHER -> List(<<>>)]

FirstStore == [k \in {<<97, 98>>} |-> FirstEntry]

\* del data[name]
Without(store, name) == [k \in (DOMAIN store) \ {name} |-> store[k]]

\* data[name] = entry
With(store, name, entry) ==
    [k \in (DOMAIN store) \cup {name} |-> IF k = name THEN entry ELSE store[k]]

\* data.keys(): the keys in an order the dict decides
KeyOrders(store) ==
    {l \in DistinctLists(DOMAIN store, Cardinality(DOMAIN store)) :
        Len(l) = Cardinality(DOMAIN store)}

\* the sum of the values of a function
RECURSIVE Sum(_)
Sum(f) ==
    IF DOMAIN f = {} THEN 0
    ELSE LET x == CHOOSE y \in DOMAIN f : TRUE
         IN  f[x] + Sum([y \in (DOMAIN f) \ {x} |-> f[y]])

\* the length of json.dumps of a value: null, a string in its quotes, a
\* list with ", " between its elements
JsonValue(v) ==
    IF v.t = "none" THEN 4
    ELSE IF v.t = "str" THEN Len(v.s) + 2
    ELSE IF v.l = <<>> THEN 2
    ELSE 2 + Sum([i \in 1..Len(v.l) |-> Len(v.l[i]) + 2]) + 2 * (Len(v.l) - 1)

\* the length of json.dumps of a dict, given the lengths of its values:
\* each key in its quotes, ": " after it, ", " between the items
JsonDict(sizes) ==
    IF DOMAIN sizes = {} THEN 2
    ELSE 2 + Sum([k \in DOMAIN sizes |-> Len(k) + 4 + sizes[k]])
           + 2 * (Cardinality(DOMAIN sizes) - 1)

\* the length of json.dumps(data, sort_keys=True)
JsonLength(store) ==
    JsonDict([k \in DOMAIN store |->
                JsonDict([f \in DOMAIN store[k] |-> JsonValue(store[k][f])])])

\* the file holds one whole JSON document and nothing after it
Intact == length = JsonLength(file)

----------------------------------------------------------------------------
(* The command line of the edit subcommand, as entry() parses it *)

\* the value of a destination whose flag is not given: None for --version
\* and --synopsis, which have no default, '' for the others
Default(f) == IF f \in {"version", "description"} THEN None ELSE Str("")

\* ParseCommas.__call__: filter(None, values.split(',')), with the value
\* given as its comma-separated pieces
ParseCommas(pieces) == List(SelectSeq(pieces, LAMBDA piece : piece # ""))

\* the namespace parse_args() returns when the flags of given, a set of
\* <<destination, value as typed, in comma-separated pieces>>, are on the
\* command line
Flags(given) ==
    [f \in Fields |->
        IF \E g \in given : g[1] = f
        THEN LET g == CHOOSE h \in given : h[1] = f
             IN  IF f \in ListFields THEN ParseCommas(g[2]) ELSE Str(g[2][1])
        ELSE Default(f)]

\* the field flags tried on a command line
FlagValues ==
    { Flags({}),
      Flags({<<"version", <<"2">>>>}),
      Flags({<<"version", <<"-">>>>}),
      Flags({<<"version", <<"2">>>>, <<"description", <<"e">>>>}),
      Flags({<<"version", <<"2">>>>, <<"description", <<"e">>>>,
             <<"categories", <<"y", "z">>>>}),
      Flags({<<"commands", <<"x">>>>}),
      Flags({<<"commands", <<"+", "z", "x">>>>}),
      Flags({<<"commands", <<"-">>>>}),
      Flags({<<"commands", <<"">>>>}),
      Flags({<<"dependencies", <<"+", "x">>>>}),
      Flags({<<"version", <<"-">>>>, <<"commands", <<"+", "x">>>>}) }

NoFlags == [f \in Fields |-> Default(f)]

NoArgs == [software |-> <<>>, mode |-> "", vals |-> NoFlags]

\* the flags given on a command line
Given(a) == {f \in Fields : a.vals[f] # Default(f)}

----------------------------------------------------------------------------
(* sub_edit *)

\* the round without its test for a list that begins with '-': the list is
\* assigned as it is given
EditFieldKeepsDash(old, new) ==
    IF new.t = "list" /\ new.l = <<>> THEN Raise("IndexError")
    ELSE IF new.t = "list" /\ new.l[1] = "+"
    THEN IF old.t = "list"
         THEN Return(List(old.l \o Tail(new.l)))
         ELSE Raise("AttributeError")
    ELSE IF new.t = "str" /\ new.s = "-" THEN Return(Str(""))
    ELSE Return(new)

\* one round of the loop over the attributes in the edit branch: the new
\* value of the field, or the exception the round raises
EditField(old, new) ==
    IF new.t = "list" /\ new.l = <<>> THEN Raise("IndexError")
    ELSE IF new.t = "list" /\ new.l[1] = "+"
    THEN IF old.t = "list"
         THEN Return(List(old.l \o Tail(new.l)))
         ELSE Raise("AttributeError")
    ELSE IF new.t = "list" /\ new.l[1] = "-" THEN Return(List(<<>>))
    ELSE IF new.t = "str" /\ new.s = "-" THEN Return(Str(""))
    ELSE Return(new)

\* one round of the loop in the append branch:
\* data[args.software][attribute] += all_args[attribute]
AppendField(old, new) ==
    IF old.t = "str"
    THEN IF new.t = "str" THEN Return(Str(new.s)) ELSE Raise("TypeError")
    ELSE IF new.t = "list" THEN Return(List(old.l \o new.l))
    ELSE IF new.t = "str" /\ new.s = "" THEN Return(old)
    ELSE Raise("TypeError")

\* the command lines tried: any mode, any name, any of the flag sets (none
\* with --remove, which reads no field)
CommandLines ==
    {[software |-> n, mode |-> m, vals |-> v] :
        n \in SoftwareArgs, m \in {"append", "edit"}, v \in FlagValues}
    \cup {[software |-> n, mode |-> "remove", vals |-> NoFlags] : n \in SoftwareArgs}

EmptyStore == [k \in {} |-> NewEntry]

\* the processes idle, the file holding the first database
NoProcess ==
    /\ pc = [p \in Procs |-> "idle"]
    /\ args = [p \in Procs |-> NoArgs]
    /\ data = [p \in Procs |-> EmptyStore]
    /\ match = [p \in Procs |-> <<>>]
    /\ answer = [p \in Procs |-> <<>>]
    /\ status = [p \in Procs |-> ""]
    /\ started = 0

\* the namespace of a list invocation: --list_categories, the -c value as
\* ParseCommas leaves it (<<>> for an absent flag, whose None is as false as
\* the empty list), --brief
NoListArgs == [list_categories |-> FALSE, categories |-> <<>>, brief |-> FALSE]

NoList ==
    /\ listArgs = NoListArgs
    /\ listed = Idle

NoCall ==
    /\ NoList
    /\ query = <<>>
    /\ possibilities = <<>>
    /\ delta = <<3, 4>>
    /\ resolved = Idle
    /\ words = <<>>
    /\ substring = Idle

\* the invocation of p ends with status s and nothing written
Stop(p, s) ==
    /\ pc' = [pc EXCEPT ![p] = "done"]
    /\ status' = [status EXCEPT ![p] = s]
    /\ UNCHANGED <<file, length, args, data, match, started>>

\* entry() and main(): the command line is parsed and the file loaded
Invoke(p) ==
    /\ pc[p] = "idle"
    /\ UNCHANGED <<callVars, answer>>
    /\ started < MaxInvocations
    /\ \E a \in CommandLines : args' = [args EXCEPT ![p] = a]
    /\ started' = started + 1
    /\ IF Intact
       THEN /\ data' = [data EXCEPT ![p] = file]
            /\ pc' = [pc EXCEPT ![p] = "loaded"]
            /\ UNCHANGED status
       ELSE /\ pc' = [pc EXCEPT ![p] = "done"]
            /\ status' = [status EXCEPT ![p] = "ValueError"]
            /\ UNCHANGED data
    /\ UNCHANGED <<file, length, match>>

\* sub_edit --remove up to the prompt: the name is resolved
Remove(p) ==
    /\ pc[p] = "loaded"
    /\ UNCHANGED <<callVars, answer>>
    /\ args[p].mode = "remove"
    /\ \E keys \in KeyOrders(data[p]) :
         LET found == autocomplete(args[p].software, keys, <<3, 4>>)
         IN  IF found.kind = "raise" THEN Stop(p, found.exc)
             ELSE /\ match' = [match EXCEPT ![p] = found.value]
                  /\ pc' = [pc EXCEPT ![p] = "prompt"]
                  /\ UNCHANGED <<file, length, args, data, status, started>>

\* the answers typed at the prompt: y, Y, n, N, a
Answers == {<<121>>, <<89>>, <<110>>, <<78>>, <<97>>}

\* the loop with its test for 'n' alone: any other answer deletes
AnswerDeletesUnlessNo(p) ==
    /\ pc[p] = "prompt"
    /\ UNCHANGED callVars
    /\ \E typed \in Answers :
         /\ answer' = [answer EXCEPT ![p] = typed]
         /\ IF Lower(typed) # <<110>>
            THEN IF match[p] \in DOMAIN data[p]
                 THEN /\ data' = [data EXCEPT ![p] = Without(data[p], match[p])]
                      /\ pc' = [pc EXCEPT ![p] = "write"]
                      /\ UNCHANGED <<file, length, args, match, status, started>>
                 ELSE Stop(p, "KeyError")
            ELSE Stop(p, "exit 0")

\* one answer to 'Delete "..." [y, n]? '
Answer(p) ==
    /\ pc[p] = "prompt"
    /\ UNCHANGED callVars
    /\ \E typed \in Answers :
         /\ answer' = [answer EXCEPT ![p] = typed]
         /\ IF Lower(typed) = <<121>>
            THEN IF match[p] \in DOMAIN data[p]
                 THEN /\ data' = [data EXCEPT ![p] = Without(data[p], match[p])]
                      /\ pc' = [pc EXCEPT ![p] = "write"]
                      /\ UNCHANGED <<file, length, args, match, status, started>>
                 ELSE Stop(p, "KeyError")
            ELSE IF Lower(typed) = <<110>> THEN Stop(p, "exit 0")
            ELSE UNCHANGED <<file, length, pc, args, data, match, status, started>>

\* sub_edit --edit: the name is resolved and every attribute assigned
Edit(p) ==
    /\ pc[p] = "loaded"
    /\ UNCHANGED <<callVars, answer>>
    /\ args[p].mode = "edit"
    /\ \E keys \in KeyOrders(data[p]) :
         LET found == autocomplete(args[p].software, keys, <<3, 4>>)
             name == found.value
             round(f) == EditField(data[p][name][f], args[p].vals[f])
             failing == {f \in Fields : round(f).kind = "raise"}
         IN  IF found.kind = "raise" THEN Stop(p, found.exc)
             ELSE IF name \notin DOMAIN data[p] THEN Stop(p, "KeyError")
             ELSE IF failing # {}
             THEN \E f \in failing : Stop(p, round(f).exc)
             ELSE /\ data' = [data EXCEPT ![p] =
                        With(data[p], name, [f \in Fields |-> round(f).value])]
                  /\ match' = [match EXCEPT ![p] = name]
                  /\ pc' = [pc EXCEPT ![p] = "write"]
                  /\ UNCHANGED <<file, length, args, status, started>>

\* the append branch without its test for a name that is a key already
AppendEntryOverwrites(p) ==
    /\ pc[p] = "loaded"
    /\ UNCHANGED <<callVars, answer>>
    /\ args[p].mode = "append"
    /\ LET name == args[p].software
           round(f) == AppendField(NewEntry[f], args[p].vals[f])
           failing == {f \in Fields : round(f).kind = "raise"}
       IN  IF failing # {}
           THEN \E f \in failing : Stop(p, round(f).exc)
           ELSE /\ data' = [data EXCEPT ![p] =
                      With(data[p], name, [f \in Fields |-> round(f).value])]
                /\ pc' = [pc EXCEPT ![p] = "write"]
                /\ UNCHANGED <<file, length, args, match, status, started>>

\* sub_edit --append: a new entry, unless the name is a key already
AppendEntry(p) ==
    /\ pc[p] = "loaded"
    /\ UNCHANGED <<callVars, answer>>
    /\ args[p].mode = "append"
    /\ LET name == args[p].software
           round(f) == AppendField(NewEntry[f], args[p].vals[f])
           failing == {f \in Fields : round(f).kind = "raise"}
       IN  IF name \in DOMAIN data[p] THEN Stop(p, "exit 1")
           ELSE IF failing # {}
           THEN \E f \in failing : Stop(p, round(f).exc)
           ELSE /\ data' = [data EXCEPT ![p] =
                      With(data[p], name, [f \in Fields |-> round(f).value])]
                /\ pc' = [pc EXCEPT ![p] = "write"]
                /\ UNCHANGED <<file, length, args, match, status, started>>

\* open(database_name, 'w'): the file is truncated, and the process holds
\* a handle at offset 0
Open(p) ==
    /\ pc[p] = "write"
    /\ UNCHANGED <<callVars, answer>>
    /\ file' = EmptyStore
    /\ length' = 0
    /\ pc' = [pc EXCEPT ![p] = "opened"]
    /\ UNCHANGED <<args, data, match, status, started>>

\* database_handle.write(json.dumps(data, sort_keys=True)) and the close at
\* the end of the with block: the document is written from offset 0, over
\* what the file holds by then, and bytes beyond its end stay
Write(p) ==
    /\ pc[p] = "opened"
    /\ UNCHANGED <<callVars, answer>>
    /\ file' = data[p]
    /\ length' = IF length > JsonLength(data[p]) THEN length
                 ELSE JsonLength(data[p])
    /\ pc' = [pc EXCEPT ![p] = "done"]
    /\ status' = [status EXCEPT ![p] = "written"]
    /\ UNCHANGED <<args, data, match, started>>

\* the process exits; its copy of the database is gone
Exit(p) ==
    /\ pc[p] = "done"
    /\ UNCHANGED callVars
    /\ pc' = [pc EXCEPT ![p] = "idle"]
    /\ args' = [args EXCEPT ![p] = NoArgs]
    /\ data' = [data EXCEPT ![p] = EmptyStore]
    /\ match' = [match EXCEPT ![p] = <<>>]
    /\ answer' = [answer EXCEPT ![p] = <<>>]
    /\ status' = [status EXCEPT ![p] = ""]
    /\ UNCHANGED <<file, length, started>>

Init ==
    /\ file = FirstStore
    /\ Intact
    /\ NoProcess
    /\ NoCall

\* invocations one after another: process 1 alone runs the program
Next ==
    \/ Invoke(1)
    \/ Remove(1)
    \/ Answer(1)
    \/ Edit(1)
    \/ AppendEntry(1)
    \/ Open(1)
    \/ Write(1)
    \/ Exit(1)

Spec == Init /\ [][Next]_vars

\* two processes run the program on the same file, their steps interleaved,
\* one invocation each
NextConcurrent ==
    \/ \E p \in Procs : Invoke(p) /\ started < Cardinality(Procs)
    \/ \E p \in Procs : Remove(p)
    \/ \E p \in Procs : Answer(p)
    \/ \E p \in Procs : Edit(p)
    \/ \E p \in Procs : AppendEntry(p)
    \/ \E p \in Procs : Open(p)
    \/ \E p \in Procs : Write(p)
    \/ \E p \in Procs : Exit(p)

SpecConcurrent == Init /\ [][NextConcurrent]_vars

----------------------------------------------------------------------------
(* The resolver called on its own: any query, any keys of a database in    *)
(* any order, any cutoff                                                   *)

InitResolve ==
    /\ query \in Queries
    /\ possibilities \in DistinctLists(Names, MaxCands)
    /\ delta \in Deltas
    /\ resolved = Idle
    /\ words = <<>>
    /\ substring = Idle
    /\ NoList
    /\ file = FirstStore
    /\ Intact
    /\ NoProcess

CallAutocomplete ==
    /\ resolved = Idle
    /\ resolved' = autocomplete(query, possibilities, delta)
    /\ UNCHANGED <<query, possibilities, delta, words, substring, listArgs, listed>>
    /\ UNCHANGED editVars

CallAutocorrect ==
    /\ resolved = Idle
    /\ resolved' = autocorrect(query, possibilities, delta)
    /\ UNCHANGED <<query, possibilities, delta, words, substring, listArgs, listed>>
    /\ UNCHANGED editVars

NextResolve == CallAutocomplete \/ CallAutocorrect

SpecResolve == InitResolve /\ [][NextResolve]_vars

----------------------------------------------------------------------------
(* max_substring called on its own, with its default arguments *)

InitSubstring ==
    /\ words \in SeqsUpTo(Strings, MaxCands)
    /\ substring = Idle
    /\ query = <<>>
    /\ possibilities = <<>>
    /\ delta = <<3, 4>>
    /\ resolved = Idle
    /\ NoList
    /\ file = FirstStore
    /\ Intact
    /\ NoProcess

CallMaxSubstring ==
    /\ substring = Idle
    /\ substring' = max_substring(words, <<>>, 0)
    /\ UNCHANGED <<query, possibilities, delta, resolved, words, listArgs, listed>>
    /\ UNCHANGED editVars

NextSubstring == CallMaxSubstring

SpecSubstring == InitSubstring /\ [][NextSubstring]_vars

----------------------------------------------------------------------------
(* sub_list, on any database file: an entry is a dict of some of the seven *)
(* fields, as json.load finds it.  The category tags are spelled out, so   *)
(* that their sorting is computed.                                         *)

\* sorted(): the strings of S in ascending order
RECURSIVE Sorted(_)
Sorted(S) ==
    IF S = {} THEN <<>>
    ELSE LET least == CHOOSE x \in S : \A y \in S \ {x} : StrLess(x, y)
         IN  <<least>> \o Sorted(S \ {least})

\* the elements a for loop, or the in operator, finds in the value of a
\* field: those of a list; none in '', the one string the program leaves in
\* a sequence field
Iterated(v) == IF v.t = "list" THEN v.l ELSE <<>>

\* extract_data: the two columns of an entry, or the KeyError of a field
\* the entry does not have
extract_data(software, store, brief) ==
    LET entry == store[software]
    IN  IF "version" \notin DOMAIN entry THEN Raise("KeyError")
        ELSE IF ~brief /\ "description" \notin DOMAIN entry THEN Raise("KeyError")
        ELSE Return([software |-> software,
                     version |-> IF brief \/ entry["version"].t # "str"
                                 THEN "" ELSE entry["version"].s,
                     description |-> IF brief THEN Str("")
                                     ELSE entry["description"]])

\* the loop of --list_categories over one entry's tags: a tag is appended
\* unless it is in the list already
RECURSIVE AppendNew(_, _)
AppendNew(categories, tags) ==
    IF tags = <<>> THEN categories
    ELSE AppendNew(IF InList(Head(tags), categories) THEN categories
                   ELSE Append(categories, Head(tags)),
                   Tail(tags))

\* the loop of --list_categories over the entries in sorted order; an entry
\* without the field is passed over (except KeyError: pass)
RECURSIVE CollectCategories(_, _, _)
CollectCategories(store, names, categories) ==
    IF names = <<>> THEN categories
    ELSE LET entry == store[Head(names)]
         IN  CollectCategories(store, Tail(names),
                IF "categories" \in DOMAIN entry
                THEN AppendNew(categories, Iterated(entry["categories"]))
                ELSE categories)

\* the loop of -c over the entries in sorted order, for one category: the
\* entries displayed.  The lookup of the field and the call of extract_data
\* are in one try block, whose except KeyError: pass covers both.
RECURSIVE Displayed(_, _, _, _)
Displayed(store, names, category, brief) ==
    IF names = <<>> THEN <<>>
    ELSE LET software == Head(names)
             entry == store[software]
             rest == Displayed(store, Tail(names), category, brief)
         IN  IF "categories" \notin DOMAIN entry THEN rest
             ELSE IF ~InList(category, Iterated(entry["categories"])) THEN rest
             ELSE IF extract_data(software, store, brief).kind = "raise" THEN rest
             ELSE <<extract_data(software, store, brief).value>> \o rest

\* the last branch: every entry displayed, with no try block around
\* extract_data
RECURSIVE DisplayedAll(_, _, _)
DisplayedAll(store, names, brief) ==
    IF names = <<>> THEN Return(<<>>)
    ELSE LET first == extract_data(Head(names), store, brief)
             rest == DisplayedAll(store, Tail(names), brief)
         IN  IF first.kind = "raise" THEN first
             ELSE IF rest.kind = "raise" THEN rest
             ELSE Return(<<first.value>> \o rest.value)

\* what sub_list prints: the sorted categories; or for each category asked
\* for its header, the entries displayed and whether any was (the "No such
\* category" line is printed when none was); or every entry
sub_list(a, store) ==
    IF a.list_categories
    THEN Return(Sorted({CollectCategories(store, Sorted(DOMAIN store), <<>>)[i] :
                    i \in 1..Len(CollectCategories(store, Sorted(DOMAIN store), <<>>))}))
    ELSE IF a.categories # <<>>
    THEN Return([i \in 1..Len(a.categories) |->
                    LET shown == Displayed(store, Sorted(DOMAIN store),
                                           a.categories[i], a.brief)
                    IN  [category |-> a.categories[i],
                         shown |-> shown,
                         exists |-> shown # <<>>]])
    ELSE DisplayedAll(store, Sorted(DOMAIN store), a.brief)

\* the most entries of a database that is listed
MaxEntries == 2

\* the names of its entries
ListNames == {<<97>>, <<65, 98>>, <<98>>}

\* stands for a field that an entry does not have
NoField == [t |-> "absent", s |-> "", l |-> <<>>]

\* the values of version, description and categories tried: None and '' are
\* what an edit leaves
ListVersions == {Str("1"), None, NoField}

ListDescriptions == {Str("d"), None, NoField}

ListCategories ==
    {List(<<>>), List(<<<<121>>>>), List(<<<<122>>, <<121>>>>),
     List(<<<<121>>, <<121>>>>), Str(""), NoField}

\* a dict of the fields that are not absent
ListEntry(version, description, categories) ==
    LET value == [f \in {"version", "description", "categories"} |->
                    CASE f = "version" -> version
                      [] f = "description" -> description
                      [] OTHER -> categories]
    IN  [f \in {g \in DOMAIN value : value[g] # NoField} |-> value[f]]

ListEntries ==
    {ListEntry(v, d, c) :
        v \in ListVersions, d \in ListDescriptions, c \in ListCategories}

ListStores ==
    UNION {[S -> ListEntries] :
              S \in {T \in SUBSET ListNames : Cardinality(T) <= MaxEntries}}

ListCommandLines ==
    {[list_categories |-> TRUE, categories |-> <<>>, brief |-> FALSE]}
    \cup {[list_categories |-> FALSE, categories |-> c, brief |-> b] :
            c \in {<<>>, <<<<121>>>>, <<<<122>>>>, <<<<120>>, <<121>>>>},
            b \in BOOLEAN}

InitList ==
    /\ file \in ListStores
    /\ Intact
    /\ listArgs \in ListCommandLines
    /\ listed = Idle
    /\ query = <<>>
    /\ possibilities = <<>>
    /\ delta = <<3, 4>>
    /\ resolved = Idle
    /\ words = <<>>
    /\ substring = Idle
    /\ NoProcess

\* main() for the list subcommand: the file is loaded and listed
CallSubList ==
    /\ listed = Idle
    /\ listed' = sub_list(listArgs, file)
    /\ UNCHANGED <<query, possibilities, delta, resolved, words, substring, listArgs>>
    /\ UNCHANGED editVars

NextList == CallSubList

SpecList == InitList /\ [][NextList]_vars

----------------------------------------------------------------------------
(* The resolver's contract, in the terms of its callers: the candidates    *)
(* are the keys of the database, compared without regard to case           *)

\* the places of the candidates whose lowercase form is the lowercased query
ExactPlaces ==
    {i \in 1..Len(possibilities) : Lower(possibilities[i]) = Lower(query)}

\* the places of the candidates whose lowercase form starts with the
\* lowercased query
PrefixPlaces ==
    {i \in 1..Len(possibilities) :
        StartsWith(Lower(possibilities[i]), Lower(query))}

\* the places, in the list the similarity stage runs over, of the candidates
\* that survive the cutoff with the highest ratio
TopPlaces ==
    LET narrowed == Narrowed(query, possibilities)
        completed == Completed(query, possibilities)
        score(i) == ratio(narrowed[i], completed)
        surviving == {i \in 1..Len(narrowed) : FracGeq(score(i), delta)}
    IN  {i \in surviving : \A j \in surviving : FracGeq(score(i), score(j))}

\* the candidates at those places, as the similarity stage sees them
TopNames ==
    LET narrowed == Narrowed(query, possibilities)
    IN  {narrowed[i] : i \in TopPlaces}

\* the typed failure of a resolution: the AssertionError utils.py documents
NoMatch == Raise("AssertionError")

\* C1: when the lowercased query equals the lowercase form of a candidate,
\* the resolver returns that candidate, as it is keyed, whatever the cutoff.
C1_ExactMatchReturnsCandidate ==
    (resolved # Idle /\ ExactPlaces # {})
        => /\ resolved.kind = "return"
           /\ \E i \in ExactPlaces : resolved.value = possibilities[i]

\* C2: when no candidate matches the query exactly and exactly one
\* candidate's lowercase form starts with the lowercased query, the resolver
\* returns that candidate.
C2_UniquePrefixReturnsCandidate ==
    (resolved # Idle /\ ExactPlaces = {} /\ Cardinality(PrefixPlaces) = 1)
        => /\ resolved.kind = "return"
           /\ \E i \in PrefixPlaces : resolved.value = possibilities[i]

\* C3: when more than one candidate starts with the query, the similarity
\* stage runs over those candidates alone, with their longest common prefix
\* as the query, and a returned name is one of them; when none starts with
\* the query, it runs over all the candidates with the query as given.
C3_NarrowingToPrefixMatches ==
    LET all == Lowered(possibilities)
        prefixed == SelectSeq(all, LAMBDA w : StartsWith(w, Lower(query)))
        common == max_substring(prefixed, <<>>, 0).value
        stage3 == IF Len(prefixed) > 1
                  THEN get_close_matches(common, prefixed, delta)
                  ELSE get_close_matches(Lower(query), all, delta)
        among == IF Len(prefixed) > 1 THEN PrefixPlaces
                 ELSE 1..Len(possibilities)
    IN  (resolved # Idle /\ ExactPlaces = {} /\ Cardinality(PrefixPlaces) # 1)
            => IF stage3 = <<>> THEN resolved.kind = "raise"
               ELSE /\ resolved.kind = "return"
                    /\ Lower(resolved.value) = stage3[1]
                    /\ \E i \in among : resolved.value = possibilities[i]

\* C4, as claimed: when two or more surviving candidates share the highest
\* ratio, the resolver returns the one that comes first in the order the
\* candidates were given in (compared in lowercase).
C4_TieGoesToFirstInOrder ==
    LET narrowed == Narrowed(query, possibilities)
        first == CHOOSE i \in TopPlaces : \A j \in TopPlaces : i <= j
    IN  (resolved # Idle /\ ~InList(query, Lowered(possibilities))
            /\ Cardinality(TopNames) >= 2)
            => resolved = Return(narrowed[first])

\* C4, amended: when two or more surviving candidates share the highest
\* ratio, the resolver returns the lowercase form of the one that is greatest
\* in string order, whatever order the candidates were given in.
C4_TieGoesToGreatestString ==
    (resolved # Idle /\ ~InList(query, Lowered(possibilities))
        /\ Cardinality(TopNames) >= 2)
        => /\ resolved.kind = "return"
           /\ resolved.value \in TopNames
           /\ \A w \in TopNames : w = resolved.value \/ StrLess(w, resolved.value)

\* C4's case: a tie at the top in which the candidate given first is not the
\* one returned
C4_Witness ==
    LET narrowed == Narrowed(query, possibilities)
        first == CHOOSE i \in TopPlaces : \A j \in TopPlaces : i <= j
    IN  /\ resolved.kind = "return"
        /\ ~InList(query, Lowered(possibilities))
        /\ Cardinality(TopNames) >= 2
        /\ resolved.value # narrowed[first]
        /\ delta = <<3, 4>>

\* C5: when no candidate of the (possibly narrowed) set reaches the cutoff,
\* the resolver ends with the typed NoMatch outcome and with no other error.
C5_NoMatchIsTyped ==
    (resolved # Idle /\ ~InList(query, Lowered(possibilities))
        /\ TopPlaces = {})
        => resolved = NoMatch

----------------------------------------------------------------------------
(* max_substring's contract *)

\* s is a prefix of every word
CommonPrefix(s, wordlist) ==
    \A i \in 1..Len(wordlist) : StartsWith(wordlist[i], s)

\* C6: for a non-empty collection of strings, of any lengths, max_substring
\* with its default arguments returns the longest string that is a prefix
\* of every member.
C6_LongestCommonPrefix ==
    (substring # Idle /\ words # <<>>)
        => /\ substring.kind = "return"
           /\ CommonPrefix(substring.value, words)
           /\ \A n \in 0..Len(words[1]) :
                CommonPrefix(SubSeq(words[1], 1, n), words)
                    => n <= Len(substring.value)

\* C6's case: words of unequal length that share a non-empty prefix
C6_Witness ==
    /\ substring.kind = "return"
    /\ substring.value # <<>>
    /\ \E i, j \in 1..Len(words) : Len(words[i]) < Len(words[j])

\* C7: max_substring of an empty collection returns the empty string and
\* raises no error.
C7_EmptyCollectionGivesEmptyString ==
    (substring # Idle /\ words = <<>>) => substring = Return(<<>>)

----------------------------------------------------------------------------
(* The edit subcommand's contract *)

\* the name the query of process p resolves to, with the keys in any order
ResolvesTo(p, name) ==
    \A keys \in KeyOrders(data[p]) :
        autocomplete(args[p].software, keys, <<3, 4>>) = Return(name)

\* the elements a field holds: those of its list, none otherwise
Elements(v) == IF v.t = "list" THEN v.l ELSE <<>>

\* a value of the type the field is documented to hold
WellFormed(f, v) == IF f \in ScalarFields THEN v.t = "str" ELSE v.t = "list"

\* C8: in an edit --edit invocation, every field of the resolved entry whose
\* flag was not given has the same value after the edit as before it, and
\* every other entry of the database is unchanged.
C8_EditKeepsUnflaggedFields ==
    [][(pc[1] = "loaded" /\ pc'[1] = "write" /\ args[1].mode = "edit")
        => /\ DOMAIN data'[1] = DOMAIN data[1]
           /\ \A k \in DOMAIN data[1] : \A f \in Fields :
                (k # match'[1] \/ f \notin Given(args[1]))
                    => data'[1][k][f] = data[1][k][f]]_vars

\* C9: after any sequence of append, edit and remove invocations, every
\* entry of the database has its three scalar fields holding strings and
\* its four sequence fields holding sequences; and an append with no field
\* flags, of a name that is not a key, creates the entry with every field at
\* its empty default.
C9_RecordShape ==
    /\ \A k \in DOMAIN file : \A f \in Fields : WellFormed(f, file[k][f])
    /\ (pc[1] = "done" /\ args[1].mode = "append" /\ Given(args[1]) = {}
            /\ status[1] # "exit 1")
        => /\ status[1] = "written"
           /\ args[1].software \in DOMAIN file
           /\ file[args[1].software] = NewEntry

\* C10: an edit of a sequence field with a value list that begins with "+"
\* leaves the field's elements in their order and adds the remaining tokens
\* after them in the given order, duplicates included.
C10_PlusAppendsInOrder ==
    [][\A n \in DOMAIN data[1] : \A f \in ListFields :
        (/\ pc[1] = "loaded" /\ pc'[1] # "loaded"
         /\ args[1].mode = "edit"
         /\ ResolvesTo(1, n)
         /\ args[1].vals[f].t = "list"
         /\ args[1].vals[f].l # <<>>
         /\ args[1].vals[f].l[1] = "+")
        => /\ pc'[1] = "write"
           /\ data'[1][n][f] =
                List(Elements(data[1][n][f]) \o Tail(args[1].vals[f].l))]_vars

\* C11: an edit that runs through resets a sequence field to the empty
\* sequence when its value list is the one token "-", resets a scalar field
\* to the empty string when its value is "-", and sets a scalar field to any
\* other value given for it; and an edit with one such flag and no other
\* runs through.
C11_ClearAndReplace ==
    [][\A n \in DOMAIN data[1] : \A f \in Fields :
        (/\ pc[1] = "loaded" /\ pc'[1] # "loaded"
         /\ args[1].mode = "edit"
         /\ ResolvesTo(1, n)
         /\ f \in Given(args[1]))
        => LET given == args[1].vals[f]
               after == data'[1][n][f]
               clearList == f \in ListFields /\ given = List(<<"-">>)
               clearStr == f \in ScalarFields /\ given = Str("-")
               replace == f \in ScalarFields /\ given.t = "str" /\ given.s # "-"
           IN  /\ ((clearList \/ clearStr \/ replace) /\ Given(args[1]) = {f})
                    => pc'[1] = "write"
               /\ pc'[1] = "write"
                    => /\ clearList => after = List(<<>>)
                       /\ clearStr => after = Str("")
                       /\ replace => after = given]_vars

\* an edit with -c - has emptied a list of commands that held an element
C11_Witness ==
    /\ pc[1] = "write"
    /\ args[1].mode = "edit"
    /\ args[1].vals["commands"] = List(<<"-">>)
    /\ match[1] \in DOMAIN file
    /\ file[match[1]]["commands"].t = "list"
    /\ file[match[1]]["commands"].l # <<>>
    /\ data[1][match[1]]["commands"] = List(<<>>)

\* C12: an append ends with the "already exists" message and exit status 1
\* exactly when its name, as typed, is a key of the database; the process's
\* copy of the database and the file are then as they were, and nothing is
\* written.
C12_AppendOfExistingName ==
    [][(pc[1] = "loaded" /\ pc'[1] # "loaded" /\ args[1].mode = "append")
        => /\ (args[1].software \in DOMAIN data[1]) <=> (status'[1] = "exit 1")
           /\ (args[1].software \in DOMAIN data[1])
                => /\ pc'[1] = "done"
                   /\ data'[1] = data[1]
                   /\ file' = file /\ length' = length
                   /\ file' = data[1]]_vars

\* an append of "ab", with flags that an append accepts, has ended with exit
\* status 1 and the entry "ab" is as it was
C12_Witness ==
    /\ pc[1] = "done"
    /\ args[1].mode = "append"
    /\ args[1].software = <<97, 98>>
    /\ {"version", "description"} \subseteq Given(args[1])
    /\ status[1] = "exit 1"
    /\ <<97, 98>> \in DOMAIN file
    /\ file[<<97, 98>>] = FirstEntry

\* the query of process p resolves to no key of its database, whatever the
\* order of the keys
Absent(p) ==
    \A keys \in KeyOrders(data[p]) :
        LET found == autocomplete(args[p].software, keys, <<3, 4>>)
        IN  found.kind = "raise" \/ found.value \notin DOMAIN data[p]

\* C13: a remove whose name resolves to no key of the database ends with
\* the "does not exist" message and exit status 1, and the database and the
\* file are as they were.
C13_RemoveOfAbsentName ==
    (pc[1] = "done" /\ args[1].mode = "remove" /\ Absent(1))
        => /\ status[1] = "exit 1"
           /\ data[1] = file

----------------------------------------------------------------------------
(* The category index *)

\* entry k of the database file is tagged with category c
Tagged(k, c) ==
    /\ "categories" \in DOMAIN file[k]
    /\ file[k]["categories"].t = "list"
    /\ InList(c, file[k]["categories"].l)

\* the category tags of the database file
AllTags ==
    {c \in UNION {{file[k]["categories"].l[i] :
                        i \in 1..Len(file[k]["categories"].l)} :
                    k \in {j \in DOMAIN file : "categories" \in DOMAIN file[j]}} :
        TRUE}

\* C14: for every database file, --list_categories prints the distinct
\* category tags of all entries in sorted order, and -c prints under each
\* category asked for the names of the entries tagged with it, each once, in
\* sorted order; neither fails, and an entry without the categories field is
\* under no category.
C14_CategoryIndex ==
    (listed # Idle /\ (listArgs.list_categories \/ listArgs.categories # <<>>))
        => /\ listed.kind = "return"
           /\ listArgs.list_categories => listed.value = Sorted(AllTags)
           /\ ~listArgs.list_categories =>
                \A i \in 1..Len(listArgs.categories) :
                    LET shown == listed.value[i].shown
                    IN  [j \in 1..Len(shown) |-> shown[j].software]
                          = Sorted({k \in DOMAIN file :
                                        Tagged(k, listArgs.categories[i])})

----------------------------------------------------------------------------
(* The prompt of --remove *)

\* C16: in an edit --remove invocation the process's copy of the database
\* changes only at the prompt, on the answer y or Y, and then by the deletion
\* of the resolved entry; the file changes only after such an answer; on n
\* or N the invocation ends with exit status 0, the copy and the file as
\* they were loaded; on any other answer nothing changes and the prompt is
\* shown again.
C16_DeleteOnlyOnYes ==
    [][(args[1].mode = "remove" /\ pc[1] # "idle" /\ pc[1] # "done")
        => /\ data'[1] # data[1]
                => /\ pc[1] = "prompt"
                   /\ Lower(answer'[1]) = <<121>>
                   /\ match[1] \in DOMAIN data[1]
                   /\ data'[1] = Without(data[1], match[1])
           /\ (file' # file \/ length' # length)
                => /\ Lower(answer[1]) = <<121>>
                   /\ match[1] \notin DOMAIN data[1]
                   /\ pc'[1] = "done"
                        => (file' = data[1] /\ length' = JsonLength(data[1]))
           /\ (pc[1] = "prompt" /\ Lower(answer'[1]) = <<121>>
                    /\ match[1] \in DOMAIN data[1])
                => /\ data'[1] = Without(data[1], match[1])
                   /\ pc'[1] = "write"
           /\ (pc[1] = "prompt" /\ Lower(answer'[1]) = <<110>>)
                => /\ pc'[1] = "done"
                   /\ status'[1] = "exit 0"
                   /\ data'[1] = data[1]
                   /\ file' = file /\ length' = length
                   /\ file' = data'[1]
           /\ (pc[1] = "prompt" /\ Lower(answer'[1]) \notin {<<121>>, <<110>>})
                => /\ pc'[1] = "prompt"
                   /\ data'[1] = data[1]
                   /\ file' = file /\ length' = length
                   /\ status'[1] = status[1]]_vars

\* the user answered Y and the resolved entry is gone from the file
C16_Witness ==
    /\ pc[1] = "done"
    /\ args[1].mode = "remove"
    /\ status[1] = "written"
    /\ answer[1] = <<89>>
    /\ match[1] = <<97, 98>>
    /\ match[1] \notin DOMAIN file

----------------------------------------------------------------------------
(* Two invocations on one file *)

\* C15: whenever an invocation writes its document, be it after another one
\* that loaded the same file and wrote before it, the write succeeds and the
\* file then holds the whole database of that invocation and nothing else.
C15_LastWriterWins ==
    [][\A p \in Procs :
        (pc[p] = "opened" /\ pc'[p] = "done")
            => /\ status'[p] = "written"
               /\ file' = data[p]
               /\ length' = JsonLength(data[p])]_vars

====
